---------------------------- MODULE Spec2Model ----------------------------
(***************************************************************************)
(* A model of the LLM automation agent (src/src/main.py and the modules it *)
(* imports): the POST /run pipeline validate -> classify -> dispatch, the  *)
(* GET /read endpoint behind validate_path, and the file handlers of       *)
(* TaskHandler.                                                            *)
(*                                                                         *)
(* Python strings are sequences of one-character strings, so that strip,   *)
(* lower, in, startswith, json.loads/json.dump and strptime are computed    *)
(* character by character.  A Python call that may raise is an operator    *)
(* returning a record with a field `raised`.                               *)
(***************************************************************************)
EXTENDS Integers, Sequences, FiniteSets, TLC

(***************************************************************************)
(* Characters and str methods                                              *)
(***************************************************************************)

\* The printable ASCII characters in code-point order, from 32 (space); the
\* grave accent (96), which no string of the model holds, is spelled out.
Ascii ==
  <<" ","!","\"","#","$","%","&","'","(",")","*","+",",","-",".","/",
    "0","1","2","3","4","5","6","7","8","9",":",";","<","=",">","?",
    "@","A","B","C","D","E","F","G","H","I","J","K","L","M","N","O",
    "P","Q","R","S","T","U","V","W","X","Y","Z","[","\\","]","^","_",
    "GRAVE","a","b","c","d","e","f","g","h","i","j","k","l","m","n","o",
    "p","q","r","s","t","u","v","w","x","y","z","{","|","}","~">>

\* ord(c): tab is 9, newline 10, carriage return 13, the rest from the table.
Ord(c) ==
  CASE c = "\t" -> 9
    [] c = "\n" -> 10
    [] c = "\r" -> 13
    [] OTHER -> 31 + (CHOOSE i \in 1..Len(Ascii) : Ascii[i] = c)

\* str.lower() on one character.
LowerChar(c) == IF Ord(c) >= 65 /\ Ord(c) <= 90 THEN Ascii[Ord(c) + 32 - 31] ELSE c

\* str.lower()
Lower(s) == [i \in 1..Len(s) |-> LowerChar(s[i])]

\* The characters str.strip() removes (str.isspace()).
IsSpace(c) == c \in {" ", "\t", "\n", "\r"}

\* str.strip(): drop the leading and the trailing whitespace.
Strip(s) ==
  LET keep == {i \in 1..Len(s) : ~IsSpace(s[i])}
  IN  IF keep = {} THEN <<>>
      ELSE LET first == CHOOSE i \in keep : \A j \in keep : i <= j
               last  == CHOOSE i \in keep : \A j \in keep : j <= i
           IN  SubSeq(s, first, last)

\* sub in s
Contains(s, sub) ==
  \E i \in 1..(Len(s) - Len(sub) + 1) : SubSeq(s, i, i + Len(sub) - 1) = sub

\* s.startswith(prefix)
StartsWith(s, prefix) ==
  Len(s) >= Len(prefix) /\ SubSeq(s, 1, Len(prefix)) = prefix

\* a < b on str: lexicographic by code point.
RECURSIVE StrLess(_, _)
StrLess(a, b) ==
  IF b = <<>> THEN FALSE
  ELSE IF a = <<>> THEN TRUE
  ELSE IF Ord(a[1]) # Ord(b[1]) THEN Ord(a[1]) < Ord(b[1])
  ELSE StrLess(Tail(a), Tail(b))

\* str(n) for an int n >= 0.
RECURSIVE StrOfNat(_)
StrOfNat(n) ==
  IF n < 10 THEN <<Ascii[n + 17]>>
  ELSE StrOfNat(n \div 10) \o <<Ascii[(n % 10) + 17]>>

\* sep.join(parts)
RECURSIVE Join(_, _)
Join(sep, parts) ==
  IF parts = <<>> THEN <<>>
  ELSE IF Len(parts) = 1 THEN parts[1]
  ELSE parts[1] \o sep \o Join(sep, Tail(parts))

IsDigit(c) == Ord(c) >= 48 /\ Ord(c) <= 57

(***************************************************************************)
(* Exceptions                                                              *)
(***************************************************************************)

\* A raised exception: its class and str(e).
Raise(type, msg) == [raised |-> TRUE, type |-> type, msg |-> msg]

\* A normal return.
Return(v) == [raised |-> FALSE, value |-> v]

(***************************************************************************)
(* json: values, json.loads and json.dump(indent=2)                        *)
(*                                                                         *)
(* The subset of JSON the model's files and completions use: strings,      *)
(* non-negative integers, arrays and objects.  A dict is the sequence of   *)
(* its (key, value) pairs in insertion order.                              *)
(***************************************************************************)

JStr(s) == [t |-> "str", v |-> s]
JInt(n) == [t |-> "int", v |-> n]
JArr(items) == [t |-> "arr", v |-> items]
JObj(pairs) == [t |-> "obj", v |-> pairs]

\* key in d
HasKey(d, k) == \E i \in 1..Len(d.v) : d.v[i][1] = k

\* d[key], for a key that is present
Get(d, k) == d.v[CHOOSE i \in 1..Len(d.v) : d.v[i][1] = k][2]

\* pairs after d[k] = v: a repeated key keeps its place and takes the new value.
Put(pairs, k, v) ==
  IF \E i \in 1..Len(pairs) : pairs[i][1] = k
  THEN [i \in 1..Len(pairs) |-> IF pairs[i][1] = k THEN <<k, v>> ELSE pairs[i]]
  ELSE Append(pairs, <<k, v>>)

ParseOk(val, next) == [ok |-> TRUE, val |-> val, next |-> next]
\* pos is the 0-based index json reports.
ParseErr(err, pos) == [ok |-> FALSE, err |-> err, pos |-> pos]

sExpectingValue == <<"E","x","p","e","c","t","i","n","g"," ","v","a","l","u","e">>
sExpectingName ==
  <<"E","x","p","e","c","t","i","n","g"," ","p","r","o","p","e","r","t","y"," ",
    "n","a","m","e"," ","e","n","c","l","o","s","e","d"," ","i","n"," ",
    "d","o","u","b","l","e"," ","q","u","o","t","e","s">>
sExpectingColon ==
  <<"E","x","p","e","c","t","i","n","g"," ","'",":","'"," ",
    "d","e","l","i","m","i","t","e","r">>
sExpectingComma ==
  <<"E","x","p","e","c","t","i","n","g"," ","'",",","'"," ",
    "d","e","l","i","m","i","t","e","r">>
sUnterminated ==
  <<"U","n","t","e","r","m","i","n","a","t","e","d"," ","s","t","r","i","n","g"," ",
    "s","t","a","r","t","i","n","g"," ","a","t">>
sInvalidControl ==
  <<"I","n","v","a","l","i","d"," ","c","o","n","t","r","o","l"," ",
    "c","h","a","r","a","c","t","e","r"," ","a","t">>
sInvalidEscape ==
  <<"I","n","v","a","l","i","d"," ","\\","e","s","c","a","p","e">>
sExtraData == <<"E","x","t","r","a"," ","d","a","t","a">>

IsJsonWs(c) == c \in {" ", "\t", "\n", "\r"}

\* The first index at or after i that holds no whitespace (Len(s)+1 at the end).
RECURSIVE SkipWs(_, _)
SkipWs(s, i) == IF i <= Len(s) /\ IsJsonWs(s[i]) THEN SkipWs(s, i + 1) ELSE i

\* The character a backslash escape stands for; b, f and uXXXX are outside
\* the alphabet of the model.
Unescape(c) ==
  CASE c = "n" -> "\n" [] c = "t" -> "\t" [] c = "r" -> "\r" [] OTHER -> c

\* The body of a string literal whose opening quote is at index open.
RECURSIVE ScanString(_, _, _, _)
ScanString(s, open, i, acc) ==
  IF i > Len(s) THEN ParseErr(sUnterminated, open - 1)
  ELSE IF s[i] = "\"" THEN ParseOk(JStr(acc), i + 1)
  ELSE IF s[i] = "\\" THEN
    IF i + 1 > Len(s) THEN ParseErr(sUnterminated, open - 1)
    ELSE IF s[i + 1] \in {"\"", "\\", "/", "n", "t", "r"}
    THEN ScanString(s, open, i + 2, Append(acc, Unescape(s[i + 1])))
    ELSE ParseErr(sInvalidEscape, i - 1)
  ELSE IF Ord(s[i]) < 32 THEN ParseErr(sInvalidControl, i - 1)
  ELSE ScanString(s, open, i + 1, Append(acc, s[i]))

\* A run of digits from index i, as a number.
RECURSIVE ScanInt(_, _, _)
ScanInt(s, i, acc) ==
  IF i <= Len(s) /\ IsDigit(s[i]) THEN ScanInt(s, i + 1, acc * 10 + (Ord(s[i]) - 48))
  ELSE ParseOk(JInt(acc), i)

RECURSIVE ParseValue(_, _)
RECURSIVE ParseMembers(_, _, _)
RECURSIVE ParseItems(_, _, _)

\* The members of an object from the key whose opening quote is at index j.
ParseMembers(s, j, pairs) ==
  LET k == ScanString(s, j, j + 1, <<>>) IN
  IF ~k.ok THEN k ELSE
  LET c == SkipWs(s, k.next) IN
  IF c > Len(s) \/ s[c] # ":" THEN ParseErr(sExpectingColon, c - 1) ELSE
  LET v == ParseValue(s, SkipWs(s, c + 1)) IN
  IF ~v.ok THEN v ELSE
  LET e    == SkipWs(s, v.next)
      more == Put(pairs, k.val.v, v.val)
  IN
  IF e <= Len(s) /\ s[e] = "}" THEN ParseOk(JObj(more), e + 1)
  ELSE IF e > Len(s) \/ s[e] # "," THEN ParseErr(sExpectingComma, e - 1)
  ELSE LET n == SkipWs(s, e + 1) IN
       IF n > Len(s) \/ s[n] # "\"" THEN ParseErr(sExpectingName, n - 1)
       ELSE ParseMembers(s, n, more)

\* The items of an array from the item at index j.
ParseItems(s, j, items) ==
  LET v == ParseValue(s, j) IN
  IF ~v.ok THEN v ELSE
  LET e == SkipWs(s, v.next) IN
  IF e <= Len(s) /\ s[e] = "]" THEN ParseOk(JArr(Append(items, v.val)), e + 1)
  ELSE IF e > Len(s) \/ s[e] # "," THEN ParseErr(sExpectingComma, e - 1)
  ELSE ParseItems(s, SkipWs(s, e + 1), Append(items, v.val))

\* The value that starts at index i (whitespace already skipped).
ParseValue(s, i) ==
  IF i > Len(s) THEN ParseErr(sExpectingValue, i - 1)
  ELSE IF s[i] = "\"" THEN ScanString(s, i, i + 1, <<>>)
  ELSE IF s[i] = "{" THEN
    LET j == SkipWs(s, i + 1) IN
    IF j <= Len(s) /\ s[j] = "}" THEN ParseOk(JObj(<<>>), j + 1)
    ELSE IF j > Len(s) \/ s[j] # "\"" THEN ParseErr(sExpectingName, j - 1)
    ELSE ParseMembers(s, j, <<>>)
  ELSE IF s[i] = "[" THEN
    LET j == SkipWs(s, i + 1) IN
    IF j <= Len(s) /\ s[j] = "]" THEN ParseOk(JArr(<<>>), j + 1)
    ELSE ParseItems(s, j, <<>>)
  ELSE IF IsDigit(s[i]) THEN ScanInt(s, i, 0)
  ELSE ParseErr(sExpectingValue, i - 1)

\* ": line L column C (char N)", the position JSONDecodeError appends.
ErrPosition(s, pos) ==
  LET nls  == {i \in 1..pos : s[i] = "\n"}
      last == IF nls = {} THEN 0 ELSE CHOOSE i \in nls : \A j \in nls : j <= i
  IN  <<":"," ","l","i","n","e"," ">> \o StrOfNat(Cardinality(nls) + 1)
        \o <<" ","c","o","l","u","m","n"," ">> \o StrOfNat(pos - last + 1)
        \o <<" ","(","c","h","a","r"," ">> \o StrOfNat(pos) \o <<")">>

\* json.loads(s): the value, or JSONDecodeError.
JsonLoads(s) ==
  LET r == ParseValue(s, SkipWs(s, 1)) IN
  IF ~r.ok THEN Raise("JSONDecodeError", r.err \o ErrPosition(s, r.pos))
  ELSE LET e == SkipWs(s, r.next) IN
       IF e <= Len(s) THEN Raise("JSONDecodeError", sExtraData \o ErrPosition(s, e - 1))
       ELSE Return(r.val)

\* The escape json.dump writes for one character of a string.
EscapeChar(c) ==
  CASE c = "\"" -> <<"\\", "\"">>
    [] c = "\\" -> <<"\\", "\\">>
    [] c = "\n" -> <<"\\", "n">>
    [] c = "\t" -> <<"\\", "t">>
    [] c = "\r" -> <<"\\", "r">>
    [] OTHER -> <<c>>

RECURSIVE EscapeStr(_)
EscapeStr(s) == IF s = <<>> THEN <<>> ELSE EscapeChar(s[1]) \o EscapeStr(Tail(s))

\* "\n" followed by 2 * level spaces.
NewlineIndent(level) == <<"\n">> \o [i \in 1..(2 * level) |-> " "]

\* json.dumps(v, indent=2) at nesting depth level.
RECURSIVE JsonDumps(_, _)
JsonDumps(v, level) ==
  CASE v.t = "str" -> <<"\"">> \o EscapeStr(v.v) \o <<"\"">>
    [] v.t = "int" -> StrOfNat(v.v)
    [] v.t = "arr" ->
         IF v.v = <<>> THEN <<"[","]">>
         ELSE <<"[">> \o NewlineIndent(level + 1)
              \o Join(<<",">> \o NewlineIndent(level + 1),
                      [i \in 1..Len(v.v) |-> JsonDumps(v.v[i], level + 1)])
              \o NewlineIndent(level) \o <<"]">>
    [] v.t = "obj" ->
         IF v.v = <<>> THEN <<"{","}">>
         ELSE <<"{">> \o NewlineIndent(level + 1)
              \o Join(<<",">> \o NewlineIndent(level + 1),
                      [i \in 1..Len(v.v) |->
                         <<"\"">> \o EscapeStr(v.v[i][1]) \o <<"\"",":"," ">>
                         \o JsonDumps(v.v[i][2], level + 1)])
              \o NewlineIndent(level) \o <<"}">>

(***************************************************************************)
(* utils/validators.py                                                     *)
(***************************************************************************)

dangerous_ops ==
  { <<"r","m"," ">>, <<"r","e","m","o","v","e">>, <<"d","e","l","e","t","e">>,
    <<"c","h","m","o","d">>, <<"c","h","o","w","n">> }

\* A validator that compares the task as typed, without lower().
is_valid_task_case_sensitive(task) ==
  IF task = <<>> \/ Len(Strip(task)) < 5 THEN FALSE
  ELSE ~\E op \in dangerous_ops : Contains(task, op)

is_valid_task(task) ==
  IF task = <<>> \/ Len(Strip(task)) < 5 THEN FALSE
  ELSE ~\E op \in dangerous_ops : Contains(Lower(task), op)

(***************************************************************************)
(* The file system: a function from the string of a resolved absolute path *)
(* to its node.  A path outside the domain does not exist.                 *)
(***************************************************************************)

\* kind: "file", "dir" or "link" (text is then the target); mode "rw" or
\* "none" (no permission to open).
File(text) == [kind |-> "file", text |-> text, mode |-> "rw"]
Unreadable(text) == [kind |-> "file", text |-> text, mode |-> "none"]
Dir == [kind |-> "dir", text |-> <<>>, mode |-> "rw"]
Link(target) == [kind |-> "link", text |-> target, mode |-> "rw"]
Absent == [kind |-> "absent", text |-> <<>>, mode |-> "none"]

Node(fsys, p) == IF p \in DOMAIN fsys THEN fsys[p] ELSE Absent

\* fsys with the node at p replaced.
WithNode(fsys, p, node) ==
  [q \in DOMAIN fsys \cup {p} |-> IF q = p THEN node ELSE fsys[q]]

\* The NUL character, which no path may hold.
NUL == "NUL"

\* The working directory of the server process.
Cwd == <<"/","a","p","p">>

\* The components of a path string between its slashes, empty ones dropped.
RECURSIVE Split(_, _, _, _)
Split(s, i, cur, acc) ==
  IF i > Len(s) THEN (IF cur = <<>> THEN acc ELSE Append(acc, cur))
  ELSE IF s[i] = "/" THEN Split(s, i + 1, <<>>, IF cur = <<>> THEN acc ELSE Append(acc, cur))
  ELSE Split(s, i + 1, Append(cur, s[i]), acc)

\* str(PurePosixPath) of a list of components below the root.
RECURSIVE PathStr(_)
PathStr(comps) ==
  IF comps = <<>> THEN <<"/">>
  ELSE IF Len(comps) = 1 THEN <<"/">> \o comps[1]
  ELSE PathStr(SubSeq(comps, 1, Len(comps) - 1)) \o <<"/">> \o comps[Len(comps)]

\* os.path.realpath: walk the components from root, "." skipped, ".." one
\* level up (never above the root), a symbolic link replaced by its target.
\* depth bounds the links followed (ELOOP is not raised when strict=False).
RECURSIVE Walk(_, _, _, _)
Walk(fsys, comps, cur, depth) ==
  IF comps = <<>> THEN cur
  ELSE LET c == comps[1]
           rest == Tail(comps)
       IN  IF c = <<".">> THEN Walk(fsys, rest, cur, depth)
           ELSE IF c = <<".", ".">>
           THEN Walk(fsys, rest, IF cur = <<>> THEN <<>> ELSE SubSeq(cur, 1, Len(cur) - 1), depth)
           ELSE LET new == Append(cur, c) IN
                IF Node(fsys, PathStr(new)).kind = "link" /\ depth > 0
                THEN Walk(fsys, Split(Node(fsys, PathStr(new)).text, 1, <<>>, <<>>) \o rest,
                          <<>>, depth - 1)
                ELSE Walk(fsys, rest, new, depth)

\* Links followed before realpath gives up on a chain.
MaxLinks == 1

\* str(Path(path).resolve()): absolute, links resolved; ValueError on NUL.
Resolve(fsys, path) ==
  IF \E i \in 1..Len(path) : path[i] = NUL
  THEN Raise("ValueError",
             <<"e","m","b","e","d","d","e","d"," ","n","u","l","l"," ","b","y","t","e">>)
  ELSE LET abs == IF path # <<>> /\ path[1] = "/" THEN path ELSE Cwd \o <<"/">> \o path
       IN  Return(PathStr(Walk(fsys, Split(abs, 1, <<>>, <<>>), <<>>, MaxLinks)))

(***************************************************************************)
(* utils/security.py                                                       *)
(***************************************************************************)

\* The allowed root as written in the source.
DataDir == <<"/","d","a","t","a">>

\* Path.is_file() of a resolved path.
IsFile(fsys, p) == Node(fsys, p).kind = "file"

validate_path(fsys, path) ==
  LET file_path == Resolve(fsys, path)
      data_dir  == Resolve(fsys, DataDir)
  IN  IF file_path.raised \/ data_dir.raised THEN FALSE
      ELSE IF ~StartsWith(file_path.value, data_dir.value) THEN FALSE
      ELSE IF ~IsFile(fsys, file_path.value) THEN FALSE
      ELSE TRUE

(***************************************************************************)
(* open(), as the handlers use it                                          *)
(***************************************************************************)

sQuote == <<"'">>
sNoSuchFile ==
  <<"[","E","r","r","n","o"," ","2","]"," ","N","o"," ","s","u","c","h"," ",
    "f","i","l","e"," ","o","r"," ","d","i","r","e","c","t","o","r","y",":"," ">>
sIsADirectory ==
  <<"[","E","r","r","n","o"," ","2","1","]"," ","I","s"," ","a"," ",
    "d","i","r","e","c","t","o","r","y",":"," ">>
sPermissionDenied ==
  <<"[","E","r","r","n","o"," ","1","3","]"," ","P","e","r","m","i","s","s","i","o","n"," ",
    "d","e","n","i","e","d",":"," ">>

\* The OSError, if any, that open(p) raises in either mode on an existing node.
OpenError(fsys, p) ==
  LET n == Node(fsys, p) IN
  IF n.kind = "dir" THEN Raise("IsADirectoryError", sIsADirectory \o sQuote \o p \o sQuote)
  ELSE IF n.kind # "absent" /\ n.mode = "none"
  THEN Raise("PermissionError", sPermissionDenied \o sQuote \o p \o sQuote)
  ELSE Return(<<>>)

\* with open(p) as f: f.read()
ReadText(fsys, p) ==
  IF Node(fsys, p).kind = "absent"
  THEN Raise("FileNotFoundError", sNoSuchFile \o sQuote \o p \o sQuote)
  ELSE IF OpenError(fsys, p).raised THEN OpenError(fsys, p)
  ELSE Return(Node(fsys, p).text)

\* with open(p, 'w') as f: f.write(text), in the directory DataDir: the file
\* system afterwards, or the OSError of open (nothing is then written).
WriteText(fsys, p, text) ==
  IF Node(fsys, DataDir).kind # "dir"
  THEN Raise("FileNotFoundError", sNoSuchFile \o sQuote \o p \o sQuote)
  ELSE IF OpenError(fsys, p).raised THEN OpenError(fsys, p)
  ELSE Return(WithNode(fsys, p, File(text)))

\* f.readlines(): the lines with their "\n", and an unterminated last line.
RECURSIVE ReadLines(_, _, _, _)
ReadLines(s, i, cur, acc) ==
  IF i > Len(s) THEN (IF cur = <<>> THEN acc ELSE Append(acc, cur))
  ELSE IF s[i] = "\n" THEN ReadLines(s, i + 1, <<>>, Append(acc, Append(cur, s[i])))
  ELSE ReadLines(s, i + 1, Append(cur, s[i]), acc)

(***************************************************************************)
(* datetime                                                                *)
(***************************************************************************)

IsLeap(y) == y % 4 = 0 /\ (y % 100 # 0 \/ y % 400 = 0)

DaysInMonth(y, m) ==
  IF m = 2 THEN (IF IsLeap(y) THEN 29 ELSE 28)
  ELSE IF m \in {4, 6, 9, 11} THEN 30 ELSE 31

\* The days of the year y before the first of month m.
RECURSIVE DaysBeforeMonth(_, _)
DaysBeforeMonth(y, m) ==
  IF m = 1 THEN 0 ELSE DaysBeforeMonth(y, m - 1) + DaysInMonth(y, m - 1)

\* date.toordinal(): 0001-01-01 is day 1.
ToOrdinal(y, m, d) ==
  LET p == y - 1 IN
  p * 365 + (p \div 4) - (p \div 100) + (p \div 400) + DaysBeforeMonth(y, m) + d

\* weekday(), shifted by one day: Sunday would be 0.
WeekdayFromSunday(y, m, d) == ToOrdinal(y, m, d) % 7

\* date.weekday(): Monday is 0, Wednesday 2.
Weekday(y, m, d) == (ToOrdinal(y, m, d) + 6) % 7

Num2(a, b) == (Ord(a) - 48) * 10 + (Ord(b) - 48)

sTimeData == <<"t","i","m","e"," ","d","a","t","a"," ">>
sNoMatch ==
  <<" ","d","o","e","s"," ","n","o","t"," ","m","a","t","c","h"," ",
    "f","o","r","m","a","t"," ","'","%","Y","-","%","m","-","%","d","'">>
sUnconverted ==
  <<"u","n","c","o","n","v","e","r","t","e","d"," ","d","a","t","a"," ",
    "r","e","m","a","i","n","s",":"," ">>
sDayOutOfRange ==
  <<"d","a","y"," ","i","s"," ","o","u","t"," ","o","f"," ","r","a","n","g","e"," ",
    "f","o","r"," ","m","o","n","t","h">>
sYearOutOfRange ==
  <<"y","e","a","r"," ","0"," ","i","s"," ","o","u","t"," ","o","f"," ","r","a","n","g","e">>

\* datetime.strptime(s, '%Y-%m-%d'): %Y is four digits, %m is 1[0-2], 0[1-9]
\* or [1-9], %d is 3[01], [12]\d, 0[1-9], [1-9] or a space and [1-9]; the
\* whole of s must be consumed and the day must exist in its month.
Strptime(s) ==
  LET n == Len(s)
      at(i) == IF i <= n THEN s[i] ELSE "EOF"
      dig(i) == i <= n /\ IsDigit(s[i])
      pos(i) == dig(i) /\ s[i] # "0"
      yearOk == dig(1) /\ dig(2) /\ dig(3) /\ dig(4) /\ at(5) = "-"
      mlen == IF ((at(6) = "1" /\ at(7) \in {"0", "1", "2"}) \/ (at(6) = "0" /\ pos(7)))
                 /\ at(8) = "-" THEN 2
              ELSE IF pos(6) /\ at(7) = "-" THEN 1
              ELSE 0
      d0 == 7 + mlen
      dlen == IF at(d0) = "3" /\ at(d0 + 1) \in {"0", "1"} THEN 2
              ELSE IF at(d0) \in {"1", "2"} /\ dig(d0 + 1) THEN 2
              ELSE IF at(d0) = "0" /\ pos(d0 + 1) THEN 2
              ELSE IF pos(d0) THEN 1
              ELSE IF at(d0) = " " /\ pos(d0 + 1) THEN 2
              ELSE 0
      y == Num2(s[1], s[2]) * 100 + Num2(s[3], s[4])
      m == IF mlen = 2 THEN Num2(s[6], s[7]) ELSE Ord(s[6]) - 48
      d == IF dlen = 1 THEN Ord(s[d0]) - 48
           ELSE IF s[d0] = " " THEN Ord(s[d0 + 1]) - 48
           ELSE Num2(s[d0], s[d0 + 1])
  IN  IF ~yearOk \/ mlen = 0 \/ dlen = 0
      THEN Raise("ValueError", sTimeData \o sQuote \o s \o sQuote \o sNoMatch)
      ELSE IF d0 + dlen - 1 < n
      THEN Raise("ValueError", sUnconverted \o SubSeq(s, d0 + dlen, n))
      ELSE IF y = 0 THEN Raise("ValueError", sYearOutOfRange)
      ELSE IF d > DaysInMonth(y, m) THEN Raise("ValueError", sDayOutOfRange)
      ELSE Return([year |-> y, month |-> m, day |-> d])

(***************************************************************************)
(* handlers/task_handlers.py: the handlers                                 *)
(*                                                                         *)
(* A handler returns {"status": "success"} or raises Exception(msg); fsys  *)
(* is the file system it leaves.                                           *)
(***************************************************************************)

HandlerOk(fsys) ==
  [raised |-> FALSE, type |-> "", msg |-> <<>>, status |-> "success", fsys |-> fsys]
HandlerRaise(msg, fsys) ==
  [raised |-> TRUE, type |-> "Exception", msg |-> msg, status |-> "", fsys |-> fsys]

fDates == <<"/","d","a","t","a","/","d","a","t","e","s",".","t","x","t">>
fDatesWednesdays ==
  <<"/","d","a","t","a","/","d","a","t","e","s","-",
    "w","e","d","n","e","s","d","a","y","s",".","t","x","t">>
fContacts ==
  <<"/","d","a","t","a","/","c","o","n","t","a","c","t","s",".","j","s","o","n">>
fContactsSorted ==
  <<"/","d","a","t","a","/","c","o","n","t","a","c","t","s","-",
    "s","o","r","t","e","d",".","j","s","o","n">>

sFailedWeekdays ==
  <<"F","a","i","l","e","d"," ","t","o"," ","c","o","u","n","t"," ",
    "w","e","e","k","d","a","y","s",":"," ">>
sFailedContacts ==
  <<"F","a","i","l","e","d"," ","t","o"," ","s","o","r","t"," ",
    "c","o","n","t","a","c","t","s",":"," ">>

\* The lines are parsed: count those on weekday 2 and write the count.
WeekdayCountingWrite(fsys, parsed) ==
  WriteText(fsys, fDatesWednesdays,
            StrOfNat(Cardinality({i \in 1..Len(parsed) :
               Weekday(parsed[i].value.year, parsed[i].value.month,
                       parsed[i].value.day) = 2})))

\* The sum over the lines: the first line strptime rejects raises, and
\* nothing is written; else the count is written.
WeekdayCountingSum(fsys, parsed, bad) ==
  IF bad # {} THEN parsed[CHOOSE i \in bad : \A j \in bad : i <= j]
  ELSE WeekdayCountingWrite(fsys, parsed)

WeekdayCountingParsed(fsys, parsed) ==
  WeekdayCountingSum(fsys, parsed, {i \in 1..Len(parsed) : parsed[i].raised})

WeekdayCountingLines(fsys, dates) ==
  WeekdayCountingParsed(fsys, [i \in 1..Len(dates) |-> Strptime(Strip(dates[i]))])

\* The try block: read dates.txt, count, write dates-wednesdays.txt.
WeekdayCountingTry(fsys, rd) ==
  IF rd.raised THEN rd ELSE WeekdayCountingLines(fsys, ReadLines(rd.value, 1, <<>>, <<>>))

\* except Exception as e: raise Exception(f"Failed to count weekdays: {e}")
WeekdayCountingResult(fsys, r) ==
  IF r.raised THEN HandlerRaise(sFailedWeekdays \o r.msg, fsys) ELSE HandlerOk(r.value)

\* A3: count the Wednesdays of /data/dates.txt into /data/dates-wednesdays.txt.
_handle_weekday_counting(params, fsys) ==
  WeekdayCountingResult(fsys, WeekdayCountingTry(fsys, ReadText(fsys, fDates)))

kLastName == <<"l","a","s","t","_","n","a","m","e">>
kFirstName == <<"f","i","r","s","t","_","n","a","m","e">>

\* type(v).__name__
PyType(v) ==
  CASE v.t = "str" -> <<"s","t","r">>
    [] v.t = "int" -> <<"i","n","t">>
    [] v.t = "arr" -> <<"l","i","s","t">>
    [] v.t = "obj" -> <<"d","i","c","t">>

sNotSupported ==
  <<"'","<","'"," ","n","o","t"," ","s","u","p","p","o","r","t","e","d"," ",
    "b","e","t","w","e","e","n"," ","i","n","s","t","a","n","c","e","s"," ","o","f"," ">>
sStringIndices ==
  <<"s","t","r","i","n","g"," ","i","n","d","i","c","e","s"," ","m","u","s","t"," ",
    "b","e"," ","i","n","t","e","g","e","r","s",","," ","n","o","t"," ","'","s","t","r","'">>
sListIndices ==
  <<"l","i","s","t"," ","i","n","d","i","c","e","s"," ","m","u","s","t"," ","b","e"," ",
    "i","n","t","e","g","e","r","s"," ","o","r"," ","s","l","i","c","e","s",","," ",
    "n","o","t"," ","s","t","r">>
sIntNotSubscriptable ==
  <<"'","i","n","t","'"," ","o","b","j","e","c","t"," ","i","s"," ","n","o","t"," ",
    "s","u","b","s","c","r","i","p","t","a","b","l","e">>
sIntNotIterable ==
  <<"'","i","n","t","'"," ","o","b","j","e","c","t"," ","i","s"," ","n","o","t"," ",
    "i","t","e","r","a","b","l","e">>

\* x[key] for a str key: the value, KeyError(repr(key)) or TypeError.
Subscript(x, key) ==
  CASE x.t = "obj" -> IF HasKey(x, key) THEN Return(Get(x, key))
                      ELSE Raise("KeyError", sQuote \o key \o sQuote)
    [] x.t = "str" -> Raise("TypeError", sStringIndices)
    [] x.t = "arr" -> Raise("TypeError", sListIndices)
    [] x.t = "int" -> Raise("TypeError", sIntNotSubscriptable)

\* a < b: defined on two str and on two int (the order of two lists is not
\* modelled: no input of the model holds one as a name).
ValLess(a, b) ==
  IF a.t = "str" /\ b.t = "str" THEN Return(StrLess(a.v, b.v))
  ELSE IF a.t = "int" /\ b.t = "int" THEN Return(a.v < b.v)
  ELSE Raise("TypeError", sNotSupported \o sQuote \o PyType(a) \o sQuote
                            \o <<" ","a","n","d"," ">> \o sQuote \o PyType(b) \o sQuote)

\* The sort key with the two names swapped.
ContactKeyFirstNameFirst(x) ==
  LET l == Subscript(x, kLastName)
      f == Subscript(x, kFirstName)
  IN  IF l.raised THEN l ELSE IF f.raised THEN f ELSE Return(<<f.value, l.value>>)

\* lambda x: (x['last_name'], x['first_name'])
ContactKey(x) ==
  LET l == Subscript(x, kLastName)
      f == Subscript(x, kFirstName)
  IN  IF l.raised THEN l ELSE IF f.raised THEN f ELSE Return(<<l.value, f.value>>)

\* k1 < k2 on two key tuples: the first differing component decides.
TupleLess(k1, k2) ==
  IF k1[1] # k2[1] THEN ValLess(k1[1], k2[1])
  ELSE IF k1[2] # k2[2] THEN ValLess(k1[2], k2[2])
  ELSE Return(FALSE)

\* The number of leading elements of the sorted run that stay before x: x
\* goes after the last element it is not less than (-1: a comparison raised).
RECURSIVE InsertPos(_, _, _)
InsertPos(run, x, j) ==
  IF j = 0 THEN 0
  ELSE LET c == TupleLess(x.key, run[j].key) IN
       IF c.raised THEN -1
       ELSE IF c.value THEN InsertPos(run, x, j - 1)
       ELSE j

\* x is not comparable with some element of run: the TypeError of the
\* first such comparison, from the right.
RECURSIVE InsertError(_, _, _)
InsertError(run, x, j) ==
  IF TupleLess(x.key, run[j].key).raised THEN TupleLess(x.key, run[j].key)
  ELSE InsertError(run, x, j - 1)

\* run with x inserted after its first j elements.
InsertAt(run, x, j) == SubSeq(run, 1, j) \o <<x>> \o SubSeq(run, j + 1, Len(run))

\* The list sort on decorated items [key, val]: stable, by "<" on the keys.
RECURSIVE SortRun(_, _)
RECURSIVE SortStep(_, _, _)
SortStep(run, todo, j) ==
  IF j = -1 THEN InsertError(run, todo[1], Len(run))
  ELSE SortRun(InsertAt(run, todo[1], j), Tail(todo))
SortRun(run, todo) ==
  IF todo = <<>> THEN Return(run)
  ELSE SortStep(run, todo, InsertPos(run, todo[1], Len(run)))

\* iter(v): the items of a list, the keys of a dict, the characters of a str.
Iterate(v) ==
  CASE v.t = "arr" -> Return(v.v)
    [] v.t = "obj" -> Return([i \in 1..Len(v.v) |-> JStr(v.v[i][1])])
    [] v.t = "str" -> Return([i \in 1..Len(v.v) |-> JStr(<<v.v[i]>>)])
    [] v.t = "int" -> Raise("TypeError", sIntNotIterable)

\* The items in the order of their keys, the keys dropped.
Undecorate(res) ==
  IF res.raised THEN res ELSE Return([i \in 1..Len(res.value) |-> res.value[i].val])

SortedByKeys(items, keys, bad) ==
  IF bad # {} THEN keys[CHOOSE i \in bad : \A j \in bad : i <= j]
  ELSE Undecorate(SortRun(<<>>, [i \in 1..Len(items) |->
                                   [key |-> keys[i].value, val |-> items[i]]]))

SortedItems(items, keys) ==
  SortedByKeys(items, keys, {i \in 1..Len(items) : keys[i].raised})

SortedIterated(it) ==
  IF it.raised THEN it
  ELSE SortedItems(it.value, [i \in 1..Len(it.value) |-> ContactKey(it.value[i])])

\* sorted(contacts, key=lambda x: (x['last_name'], x['first_name'])): every
\* key is computed first, then the items are ordered.
SortedContacts(contacts) == SortedIterated(Iterate(contacts))

\* json.dump(sorted_contacts, f, indent=2) into contacts-sorted.json.
ContactSortingSorted(fsys, srt) ==
  IF srt.raised THEN srt
  ELSE WriteText(fsys, fContactsSorted, JsonDumps(JArr(srt.value), 0))

ContactSortingLoaded(fsys, contacts) ==
  IF contacts.raised THEN contacts
  ELSE ContactSortingSorted(fsys, SortedContacts(contacts.value))

\* The try block: read and parse contacts.json, sort, write the output.
ContactSortingTry(fsys, rd) ==
  IF rd.raised THEN rd ELSE ContactSortingLoaded(fsys, JsonLoads(rd.value))

\* except Exception as e: raise Exception(f"Failed to sort contacts: {e}")
ContactSortingResult(fsys, r) ==
  IF r.raised THEN HandlerRaise(sFailedContacts \o r.msg, fsys) ELSE HandlerOk(r.value)

\* A4: sort /data/contacts.json into /data/contacts-sorted.json.
_handle_contact_sorting(params, fsys) ==
  ContactSortingResult(fsys, ContactSortingTry(fsys, ReadText(fsys, fContacts)))

(***************************************************************************)
(* handlers/task_handlers.py: handle_task                                  *)
(***************************************************************************)

\* The dict display of handle_task, in the order it is evaluated: the task
\* type and the name of the bound method looked up on self.
handlers ==
  <<
    <<<<"i","n","s","t","a","l","l","_","u","v">>,
      <<"_","h","a","n","d","l","e","_","u","v","_","i","n","s","t","a","l",
        "l","a","t","i","o","n">>>>,
    <<<<"f","o","r","m","a","t","_","m","a","r","k","d","o","w","n">>,
      <<"_","h","a","n","d","l","e","_","m","a","r","k","d","o","w","n","_",
        "f","o","r","m","a","t","t","i","n","g">>>>,
    <<<<"c","o","u","n","t","_","w","e","e","k","d","a","y","s">>,
      <<"_","h","a","n","d","l","e","_","w","e","e","k","d","a","y","_","c",
        "o","u","n","t","i","n","g">>>>,
    <<<<"s","o","r","t","_","c","o","n","t","a","c","t","s">>,
      <<"_","h","a","n","d","l","e","_","c","o","n","t","a","c","t","_","s",
        "o","r","t","i","n","g">>>>,
    <<<<"r","e","c","e","n","t","_","l","o","g","s">>,
      <<"_","h","a","n","d","l","e","_","r","e","c","e","n","t","_","l","o",
        "g","s">>>>,
    <<<<"c","r","e","a","t","e","_","i","n","d","e","x">>,
      <<"_","h","a","n","d","l","e","_","m","a","r","k","d","o","w","n","_",
        "i","n","d","e","x">>>>,
    <<<<"e","x","t","r","a","c","t","_","e","m","a","i","l">>,
      <<"_","h","a","n","d","l","e","_","e","m","a","i","l","_","e","x","t",
        "r","a","c","t","i","o","n">>>>,
    <<<<"e","x","t","r","a","c","t","_","c","a","r","d">>,
      <<"_","h","a","n","d","l","e","_","c","a","r","d","_","e","x","t","r",
        "a","c","t","i","o","n">>>>,
    <<<<"f","i","n","d","_","s","i","m","i","l","a","r">>,
      <<"_","h","a","n","d","l","e","_","s","i","m","i","l","a","r","_","c",
        "o","m","m","e","n","t","s">>>>,
    <<<<"q","u","e","r","y","_","d","a","t","a","b","a","s","e">>,
      <<"_","h","a","n","d","l","e","_","d","a","t","a","b","a","s","e","_",
        "q","u","e","r","y">>>>,
    <<<<"f","e","t","c","h","_","a","p","i">>,
      <<"_","h","a","n","d","l","e","_","a","p","i","_","f","e","t","c","h">>>>,
    <<<<"g","i","t","_","o","p","e","r","a","t","i","o","n","s">>,
      <<"_","h","a","n","d","l","e","_","g","i","t","_","o","p","s">>>>,
    <<<<"s","c","r","a","p","e","_","w","e","b","s","i","t","e">>,
      <<"_","h","a","n","d","l","e","_","w","e","b","_","s","c","r","a","p",
        "i","n","g">>>>,
    <<<<"p","r","o","c","e","s","s","_","i","m","a","g","e">>,
      <<"_","h","a","n","d","l","e","_","i","m","a","g","e","_","p","r","o",
        "c","e","s","s","i","n","g">>>>,
    <<<<"p","r","o","c","e","s","s","_","a","u","d","i","o">>,
      <<"_","h","a","n","d","l","e","_","a","u","d","i","o","_","p","r","o",
        "c","e","s","s","i","n","g">>>>,
    <<<<"c","o","n","v","e","r","t","_","m","a","r","k","d","o","w","n">>,
      <<"_","h","a","n","d","l","e","_","m","a","r","k","d","o","w","n","_",
        "c","o","n","v","e","r","s","i","o","n">>>>,
    <<<<"f","i","l","t","e","r","_","c","s","v">>,
      <<"_","h","a","n","d","l","e","_","c","s","v","_","f","i","l","t","e",
        "r","i","n","g">>>>
  >>

\* The methods the class TaskHandler defines with a name _handle_*.
TaskHandlerMethods ==
  {
    <<"_","h","a","n","d","l","e","_","u","v","_","i","n","s","t","a","l",
        "l","a","t","i","o","n">>,
    <<"_","h","a","n","d","l","e","_","m","a","r","k","d","o","w","n","_",
        "f","o","r","m","a","t","t","i","n","g">>,
    <<"_","h","a","n","d","l","e","_","w","e","e","k","d","a","y","_","c",
        "o","u","n","t","i","n","g">>,
    <<"_","h","a","n","d","l","e","_","c","o","n","t","a","c","t","_","s",
        "o","r","t","i","n","g">>,
    <<"_","h","a","n","d","l","e","_","r","e","c","e","n","t","_","l","o",
        "g","s">>,
    <<"_","h","a","n","d","l","e","_","m","a","r","k","d","o","w","n","_",
        "i","n","d","e","x">>,
    <<"_","h","a","n","d","l","e","_","e","m","a","i","l","_","e","x","t",
        "r","a","c","t","i","o","n">>,
    <<"_","h","a","n","d","l","e","_","c","a","r","d","_","e","x","t","r",
        "a","c","t","i","o","n">>,
    <<"_","h","a","n","d","l","e","_","s","i","m","i","l","a","r","_","c",
        "o","m","m","e","n","t","s">>,
    <<"_","h","a","n","d","l","e","_","d","a","t","a","b","a","s","e","_",
        "q","u","e","r","y">>
  }

kTaskType == <<"t","a","s","k","_","t","y","p","e">>
kParameters == <<"p","a","r","a","m","e","t","e","r","s">>
sNoAttribute ==
  <<"'","T","a","s","k","H","a","n","d","l","e","r","'"," ","o","b","j","e",
    "c","t"," ","h","a","s"," ","n","o"," ","a","t","t","r","i","b","u","t",
    "e"," ">>
sUnknownTaskType ==
  <<"U","n","k","n","o","w","n"," ","t","a","s","k"," ","t","y","p","e",":",
    " ">>
sUnhashable ==
  <<"u","n","h","a","s","h","a","b","l","e"," ","t","y","p","e",":"," ">>
sLLMFailed ==
  <<"L","L","M"," ","r","e","q","u","e","s","t"," ","f","a","i","l","e","d",
    ":"," ">>
mWeekdayCounting ==
  <<"_","h","a","n","d","l","e","_","w","e","e","k","d","a","y","_","c","o",
    "u","n","t","i","n","g">>
mContactSorting ==
  <<"_","h","a","n","d","l","e","_","c","o","n","t","a","c","t","_","s","o",
    "r","t","i","n","g">>

\* LLMClient.get_completion(prompt): the completion the service returned, or
\* Exception("LLM request failed: ...") on a status other than 200.
get_completion(completion) ==
  IF completion.ok THEN Return(completion.text)
  ELSE Raise("Exception", sLLMFailed \o completion.text)

\* json.loads(response)
Loaded(response) == IF response.raised THEN response ELSE JsonLoads(response.value)

\* _classify_task: json.loads of the completion.
_classify_task(task, completion) == Loaded(get_completion(completion))

\* str(v) inside an f-string, for a str or an int.
StrOf(v) == IF v.t = "int" THEN StrOfNat(v.v) ELSE v.v

\* await handler(params), for the bound method named method.  A3 and A4
\* are computed; the other handlers run a subprocess, a query or an LLM
\* call, and are represented by the outcome of that: extern.
InvokeHandler(method, params, fsys, extern) ==
  IF method = mWeekdayCounting THEN _handle_weekday_counting(params, fsys)
  ELSE IF method = mContactSorting THEN _handle_contact_sorting(params, fsys)
  ELSE IF extern.ok THEN HandlerOk(fsys)
  ELSE HandlerRaise(extern.msg, fsys)

\* What handle_task gives: the handler's return or the exception raised,
\* the file system afterwards and the calls made, in order.
Outcome(r, fsys, calls) ==
  [raised |-> r.raised,
   type   |-> IF r.raised THEN r.type ELSE "",
   msg    |-> IF r.raised THEN r.msg ELSE <<>>,
   status |-> IF r.raised THEN "" ELSE r.status,
   fsys   |-> fsys,
   calls  |-> calls]

\* return await handler(params)
Invoked(result) == Outcome(result, result.fsys, <<"get_completion", "handler">>)

\* handler = handlers.get(task_type); raise ValueError if there is none.
\* found: the entries of the dict with the key task_type.
Lookup(task_type, params, fsys, extern, found) ==
  IF task_type.t \in {"arr", "obj"}
  THEN Outcome(Raise("TypeError", sUnhashable \o sQuote \o PyType(task_type) \o sQuote),
               fsys, <<"get_completion">>)
  ELSE IF found = {}
  THEN Outcome(Raise("ValueError", sUnknownTaskType \o StrOf(task_type)),
               fsys, <<"get_completion">>)
  ELSE Invoked(InvokeHandler(handlers[CHOOSE i \in found : TRUE][2], params, fsys, extern))

\* handlers = {...}: each bound method is looked up on self, in order, and
\* the first name the class does not define raises AttributeError.
\* missing: the entries whose method the class does not define.
BuildHandlers(task_type, params, fsys, extern, missing) ==
  IF missing # {}
  THEN Outcome(Raise("AttributeError", sNoAttribute \o sQuote
                  \o handlers[CHOOSE i \in missing : \A j \in missing : i <= j][2]
                  \o sQuote), fsys, <<"get_completion">>)
  ELSE Lookup(task_type, params, fsys, extern,
              {i \in 1..Len(handlers) : task_type.t = "str" /\ handlers[i][1] = task_type.v})

\* task_type = classification['task_type']; params = classification['parameters']
Fields(task_type, params, fsys, extern) ==
  IF task_type.raised THEN Outcome(task_type, fsys, <<"get_completion">>)
  ELSE IF params.raised THEN Outcome(params, fsys, <<"get_completion">>)
  ELSE BuildHandlers(task_type.value, params.value, fsys, extern,
                     {i \in 1..Len(handlers) : handlers[i][2] \notin TaskHandlerMethods})

Classified(classification, fsys, extern) ==
  IF classification.raised THEN Outcome(classification, fsys, <<"get_completion">>)
  ELSE Fields(Subscript(classification.value, kTaskType),
              Subscript(classification.value, kParameters), fsys, extern)

\* handle_task: classify, read the two fields, build the dict of bound
\* methods, look the task type up, call the handler.
handle_task(task, completion, fsys, extern) ==
  Classified(_classify_task(task, completion), fsys, extern)

(***************************************************************************)
(* main.py: the endpoints                                                  *)
(***************************************************************************)

sInvalidTask ==
  <<"I","n","v","a","l","i","d"," ","t","a","s","k"," ","d","e","s","c","r",
    "i","p","t","i","o","n">>
sInvalid == <<"I","n","v","a","l","i","d">>
sFailedToParse ==
  <<"F","a","i","l","e","d"," ","t","o"," ","p","a","r","s","e">>
sInternal ==
  <<"I","n","t","e","r","n","a","l"," ","s","e","r","v","e","r"," ","e","r",
    "r","o","r",":"," ">>
sInvalidPath ==
  <<"I","n","v","a","l","i","d"," ","p","a","t","h",":"," ","M","u","s","t",
    " ","b","e"," ","w","i","t","h","i","n"," ","/","d","a","t","a"," ","d",
    "i","r","e","c","t","o","r","y">>
sFileNotFound ==
  <<"F","i","l","e"," ","n","o","t"," ","f","o","u","n","d",":"," ">>

\* An HTTP response: the status, the detail of an HTTPException, the
\* "result" of a successful /run ("" when there is none) and the body of a
\* successful /read.
Response(status, detail, result, content) ==
  [status |-> status, detail |-> detail, result |-> result, content |-> content]

\* The except clause of run_task for an exception that is no HTTPException.
ErrorResponse(msg) ==
  IF Contains(msg, sInvalid) \/ Contains(msg, sFailedToParse)
  THEN Response(400, msg, "", <<>>)
  ELSE Response(500, sInternal \o msg, "", <<>>)

\* The return of run_task, or its except clause, on what handle_task gave.
Handled(result) ==
  [resp  |-> IF result.raised THEN ErrorResponse(result.msg)
             ELSE Response(200, <<>>, result.status, <<>>),
   fsys  |-> result.fsys,
   calls |-> result.calls]

\* POST /run: the response, the file system afterwards and the calls made.
run_task(task, completion, fsys, extern) ==
  IF task = <<>> \/ ~is_valid_task(task)
  THEN [resp |-> Response(400, sInvalidTask, "", <<>>), fsys |-> fsys, calls |-> <<>>]
  ELSE Handled(handle_task(task, completion, fsys, extern))

\* file_path.read_text() of the path as resolved, or the 404 and 500 answers.
ReadResolved(path, fsys, p, text) ==
  IF Node(fsys, p).kind = "absent" THEN Response(404, sFileNotFound \o path, "", <<>>)
  ELSE IF text.raised THEN Response(500, sInternal \o text.msg, "", <<>>)
  ELSE Response(200, <<>>, "", text.value)

\* GET /read.  Path(path).exists() and read_text() follow the path as
\* validate_path resolved it.
read_file(path, fsys) ==
  IF ~validate_path(fsys, path) THEN Response(400, sInvalidPath, "", <<>>)
  ELSE ReadResolved(path, fsys, Resolve(fsys, path).value,
                    ReadText(fsys, Resolve(fsys, path).value))

(***************************************************************************)
(* The inputs: requests, completions of the LLM service and file systems   *)
(***************************************************************************)

Prefixes == { <<>>, <<" "," ">>, <<"d","o"," ">> }
Suffixes == { <<>>, <<" ","x">> }
tSortContacts ==
  <<"s","o","r","t"," ","t","h","e"," ","c","o","n","t","a","c","t","s"," ",
    "f","i","l","e"," ","b","y"," ","n","a","m","e">>
Cores ==
  { <<"r","m"," ">>,
    <<"r","e","m","o","v","e">>,
    <<"d","e","l","e","t","e">>,
    <<"c","h","m","o","d">>,
    <<"c","h","o","w","n">>,
    <<"R","M"," ">>,
    <<"R","E","M","O","V","E">>,
    <<"D","E","L","E","T","E">>,
    <<"C","H","M","O","D">>,
    <<"C","H","O","W","N">>,
    <<"R","e","M","o","V","e">>,
    <<"r","m">>,
    <<"s","o","r","t">>,
    <<>>,
    <<"\t","\n">>,
    <<"c","o","u","n","t"," ","w","e","d","n","e","s","d","a","y","s">>,
    tSortContacts }

\* The task strings of POST /run.
Tasks == {pre \o core \o suf : pre \in Prefixes, core \in Cores, suf \in Suffixes}

\* A completion: the text of a 200 answer, or the body of another status.
Completed(text) == [ok |-> TRUE, text |-> text]
Failed(text) == [ok |-> FALSE, text |-> text]
NoCompletion == [ok |-> FALSE, text |-> <<"-">>]

\* The JSON text of a classification with the given task type.
Classification(task_type) ==
  JsonDumps(JObj(<< <<kTaskType, JStr(task_type)>>, <<kParameters, JObj(<<>>)>> >>), 0)

Completions ==
  { Completed(Classification(handlers[4][1])),
    Completed(Classification(handlers[3][1])),
    Completed(Classification(handlers[11][1])),
    Completed(Classification(<<"b","o","g","u","s">>)),
    Completed(Classification(<<"I","n","v","a","l","i","d","O","p">>)),
    Completed(<<"I"," ","c","a","n","n","o","t"," ","h","e","l","p"," ","w",
              "i","t","h"," ","t","h","a","t",".">>),
    Completed(JsonDumps(JObj(<< <<kTaskType, JStr(handlers[4][1])>> >>), 0)),
    Completed(JsonDumps(JObj(<< <<kParameters, JObj(<<>>)>> >>), 0)),
    Completed(JsonDumps(JArr(<<JStr(handlers[4][1])>>), 0)),
    Completed(<<"{","\"","t","a","s","k","_","t","y","p","e","\"",":"," ",
              "\"","s","o","r","t","\n","\"","}">>),
    Failed(<<"U","n","a","u","t","h","o","r","i","z","e","d">>),
    Failed(<<"I","n","v","a","l","i","d"," ","A","P","I"," ","k","e","y">>) }

\* What a handler other than A3 and A4 met outside the process.
ExternOutcomes ==
  { [ok |-> TRUE, msg |-> <<>>],
    [ok |-> FALSE, msg |-> <<"F","a","i","l","e","d"," ","t","o"," ","q",
      "u","e","r","y"," ","d","a","t","a","b","a","s","e",":"," ","n","o",
      " ","s","u","c","h"," ","t","a","b","l","e",":"," ","t","i","c","k",
      "e","t","s">>] }

pX == <<"/","d","a","t","a","/","x",".","t","x","t">>
pSecret == <<"/","s","e","c","r","e","t",".","t","x","t">>
pPasswd == <<"/","e","t","c","/","p","a","s","s","w","d">>
pSibling == <<"/","d","a","t","a","2","/","x",".","t","x","t">>
pLink == <<"/","d","a","t","a","/","l","i","n","k">>
pMissing ==
  <<"/","d","a","t","a","/","m","i","s","s","i","n","g",".","t","x","t">>

\* The paths of GET /read.
Paths ==
  { pX, pPasswd, pSibling, pLink, pMissing, DataDir, fContacts,
    <<"/","d","a","t","a","/",".",".","/","s","e","c","r","e","t",".","t",
      "x","t">>,
    <<"/","d","a","t","a","/",".",".","/","e","t","c","/","p","a","s","s",
      "w","d">>,
    <<"/","d","a","t","a","/","s","u","b","/",".",".","/","x",".","t","x",
      "t">>,
    <<"/","d","a","t","a","/",".","/","x",".","t","x","t">>,
    <<"d","a","t","a","/","x",".","t","x","t">>,
    <<"/","d","a","t","a","/","x",NUL,".","t","x","t">>,
    <<"/","d","a","t","a","2","/",".",".","/","d","a","t","a","/","x",".",
      "t","x","t">> }

\* The contacts of the model: two last names that differ in case, two first
\* names of which one is a prefix of the other, and an id to tell ties apart.
kId == <<"i","d">>
Contact(first, last, id) ==
  JObj(<< <<kFirstName, JStr(first)>>, <<kLastName, JStr(last)>>, <<kId, JStr(id)>> >>)
Contacts ==
  { Contact(f, l, i) : f \in {<<"a">>, <<"a","b">>}, l \in {<<"b">>, <<"B">>},
                       i \in {<<"1">>, <<"2">>} }

MaxContacts == 3

\* The lists of at most n elements of S.
SeqsUpTo(S, n) == UNION {[1..k -> S] : k \in 0..n}

\* A contact without a last name, an array holding a string, and no JSON.
MalformedContactFiles ==
  { JsonDumps(JArr(<<JObj(<< <<kFirstName, JStr(<<"a">>)>> >>)>>), 0),
    JsonDumps(JArr(<<Contact(<<"a">>, <<"b">>, <<"1">>), JStr(<<"x">>)>>), 0),
    <<"[","{","\"","i","d","\"",":"," ","\"","a","\t","b","\"","}","]">>,
    <<"<","h","t","m","l",">">> }

\* The texts of /data/contacts.json.
ContactFiles ==
  {JsonDumps(JArr(cs), 0) : cs \in SeqsUpTo(Contacts, MaxContacts)}
    \cup MalformedContactFiles

Date(y, m, d) == [year |-> y, month |-> m, day |-> d]

\* Dates on and off a Wednesday, in leap and common years.
DatePool ==
  { Date(2024, 1, 1), Date(2024, 1, 3), Date(2024, 1, 10), Date(2024, 2, 29),
    Date(2023, 3, 1), Date(2000, 2, 29), Date(1900, 3, 1), Date(2024, 12, 25) }

\* n in decimal, zero-padded to width digits.
RECURSIVE Pad(_, _)
Pad(n, width) == IF width = 0 THEN <<>> ELSE Pad(n \div 10, width - 1) \o <<Ascii[(n % 10) + 17]>>

\* YYYY-MM-DD
FormatIso(date) ==
  Pad(date.year, 4) \o <<"-">> \o Pad(date.month, 2) \o <<"-">> \o Pad(date.day, 2)

MaxLines == 3

\* The text of a file with one line per element of lines.
RECURSIVE Lines(_)
Lines(lines) == IF lines = <<>> THEN <<>> ELSE lines[1] \o <<"\n">> \o Lines(Tail(lines))

\* A blank line, a date that is none, a day that does not exist.
MalformedDateFiles ==
  { <<"\n">>,
    FormatIso(Date(2024, 1, 3)) \o <<"\n","\n">>,
    Lines(<<FormatIso(Date(2024, 1, 3)), <<"W","e","d","n","e","s","d","a","y">>>>),
    Lines(<<FormatIso(Date(2023, 2, 29))>>) }

\* The texts of /data/dates.txt: one ISO date per line, the last line with or
\* without its newline.
DateFiles ==
  {Lines([i \in 1..Len(ds) |-> FormatIso(ds[i])]) : ds \in SeqsUpTo(DatePool, MaxLines)}
    \cup {FormatIso(d1) \o <<"\n">> \o FormatIso(d2) : d1, d2 \in DatePool}
    \cup MalformedDateFiles

\* What is on the disk besides the files a request is about.
BaseFs ==
  (DataDir :> Dir) @@ (pPasswd :> File(<<"r","o","o","t">>)) @@ (pLink :> Link(pPasswd))

\* f extended or overridden at p, unless node is Absent.
Place(f, p, node) == IF node = Absent THEN f ELSE WithNode(f, p, node)

(***************************************************************************)
(* The server: one request at a time, from idle to done and back           *)
(***************************************************************************)

VARIABLES
  fs,      \* the file system
  before,  \* the file system when the request in hand arrived
  phase,   \* "idle", or "done" when the request in hand has been answered
  req,     \* the request in hand
  resp,    \* its response
  calls    \* the calls it made

vars == <<fs, before, phase, req, resp, calls>>

Request(op, arg, completion) == [op |-> op, arg |-> arg, completion |-> completion]
NoRequest == Request("none", <<>>, NoCompletion)
NoResponse == Response(0, <<>>, "", <<>>)

Idle ==
  /\ phase = "idle"
  /\ req = NoRequest
  /\ resp = NoResponse
  /\ calls = <<>>
  /\ before = fs

\* The service at start: /data with or without a readable x.txt, with or
\* without a file beside /data, and with or without /secret.txt and a
\* contacts.json of two contacts.
Init ==
  /\ \E x \in {Absent, File(<<"h","i">>), Unreadable(<<"h","i">>)},
        sibling \in {Absent, File(<<"o">>)},
        rest \in BOOLEAN :
        fs = Place(Place(Place(Place(BaseFs, pX, x), pSibling, sibling),
                         pSecret, IF rest THEN File(<<"s">>) ELSE Absent),
                   fContacts,
                   IF rest
                   THEN File(JsonDumps(JArr(<<Contact(<<"a">>, <<"b">>, <<"1">>),
                                              Contact(<<"a">>, <<"B">>, <<"2">>)>>), 0))
                   ELSE Absent)
  /\ Idle

\* The state after a /run: the completion is part of the request when the
\* LLM was called.
Answer(task, completion, out) ==
  /\ req' = Request("run", task, IF out.calls = <<>> THEN NoCompletion ELSE completion)
  /\ resp' = out.resp
  /\ calls' = out.calls
  /\ fs' = out.fsys

\* POST /run?task=...
RunTask ==
  /\ phase = "idle"
  /\ \E task \in Tasks, completion \in Completions, extern \in ExternOutcomes :
       Answer(task, completion, run_task(task, completion, fs, extern))
  /\ before' = fs
  /\ phase' = "done"

\* GET /read?path=...
ReadFile ==
  /\ phase = "idle"
  /\ \E path \in Paths :
       /\ req' = Request("read", path, NoCompletion)
       /\ resp' = read_file(path, fs)
  /\ calls' = <<>>
  /\ before' = fs
  /\ phase' = "done"
  /\ UNCHANGED fs

\* GET /health
HealthCheck ==
  /\ phase = "idle"
  /\ req' = Request("health", <<>>, NoCompletion)
  /\ resp' = Response(200, <<>>, "healthy", <<>>)
  /\ calls' = <<>>
  /\ before' = fs
  /\ phase' = "done"
  /\ UNCHANGED fs

\* The response is sent; the server takes the next request.
Finish ==
  /\ phase = "done"
  /\ phase' = "idle"
  /\ req' = NoRequest
  /\ resp' = NoResponse
  /\ calls' = <<>>
  /\ before' = fs
  /\ UNCHANGED fs

Next == RunTask \/ ReadFile \/ HealthCheck \/ Finish

Spec == Init /\ [][Next]_vars

(***************************************************************************)
(* A9: the most similar pair of comments                                   *)
(***************************************************************************)

fComments ==
  <<"/","d","a","t","a","/","c","o","m","m","e","n","t","s",".","t","x","t">>
fCommentsSimilar ==
  <<"/","d","a","t","a","/","c","o","m","m","e","n","t","s","-","s","i","m",
    "i","l","a","r",".","t","x","t">>

sFailedSimilar ==
  <<"F","a","i","l","e","d"," ","t","o"," ","f","i","n","d"," ","s","i","m",
    "i","l","a","r"," ","c","o","m","m","e","n","t","s",":"," ">>
sCanOnlyJoin ==
  <<"c","a","n"," ","o","n","l","y"," ","j","o","i","n"," ","a","n"," ","i",
    "t","e","r","a","b","l","e">>
mCosineSimilarity ==
  <<"_","c","o","s","i","n","e","_","s","i","m","i","l","a","r","i","t","y">>

\* f.read().splitlines(): a line ends at "\n", "\r" or "\r\n"; the text after
\* the last boundary is a line unless it is empty.
RECURSIVE SplitLines(_, _, _, _)
SplitLines(s, i, cur, acc) ==
  IF i > Len(s) THEN (IF cur = <<>> THEN acc ELSE Append(acc, cur))
  ELSE IF s[i] = "\r" /\ i < Len(s) /\ s[i + 1] = "\n"
  THEN SplitLines(s, i + 2, <<>>, Append(acc, cur))
  ELSE IF s[i] = "\n" \/ s[i] = "\r" THEN SplitLines(s, i + 1, <<>>, Append(acc, cur))
  ELSE SplitLines(s, i + 1, Append(cur, s[i]), acc)

\* The answer of the embeddings service: response.json()["data"], or the
\* exception get_embeddings raises.
EmbeddingOutcomes ==
  { [ok |-> TRUE, msg |-> <<>>],
    [ok |-> FALSE, msg |->
      <<"E","m","b","e","d","d","i","n","g"," ","r","e","q","u","e","s","t",
        " ","f","a","i","l","e","d",":"," ","-">>] }

\* After the embeddings: the first pair looks up self._cosine_similarity,
\* which the class does not define. Without a pair similar_pair stays None:
\* open(output_file, 'w') empties or creates the file (wr is its outcome),
\* then '\n'.join(None) raises.
SimilarCommentsPair(fsys, comments, wr) ==
  IF Len(comments) >= 2
  THEN HandlerRaise(sFailedSimilar \o sNoAttribute \o sQuote \o mCosineSimilarity
                      \o sQuote, fsys)
  ELSE IF wr.raised THEN HandlerRaise(sFailedSimilar \o wr.msg, fsys)
  ELSE HandlerRaise(sFailedSimilar \o sCanOnlyJoin, wr.value)

\* A9: the most similar pair of /data/comments.txt into
\* /data/comments-similar.txt.
_handle_similar_comments(params, fsys, embeddings) ==
  IF ReadText(fsys, fComments).raised
  THEN HandlerRaise(sFailedSimilar \o ReadText(fsys, fComments).msg, fsys)
  ELSE IF ~embeddings.ok THEN HandlerRaise(sFailedSimilar \o embeddings.msg, fsys)
  ELSE SimilarCommentsPair(fsys, SplitLines(ReadText(fsys, fComments).value, 1, <<>>, <<>>),
                           WriteText(fsys, fCommentsSimilar, <<>>))

\* The texts of /data/comments.txt: up to MaxLines comments of one line each,
\* a last line without its newline, a blank line, a "\r\n" boundary.
CommentFiles ==
  {Lines(cs) : cs \in SeqsUpTo({<<"a">>, <<"b","c">>}, MaxLines)}
    \cup { <<"a">>, <<"\n">>, <<"a","\n","b">>, <<"a","\r","\n","b","c","\r","\n">> }

(***************************************************************************)
(* The handlers A3, A4 and A9 on their own: called with {} on a /data that *)
(* holds a dates.txt, a contacts.json or a comments.txt, with or without   *)
(* an output file                                                          *)
(***************************************************************************)

InitHandlers ==
  /\ \E old \in {Absent, File(<<"o","l","d">>)} :
       \/ \E text \in ContactFiles :
            fs = Place(WithNode(BaseFs, fContacts, File(text)), fContactsSorted, old)
       \/ \E text \in DateFiles :
            fs = Place(WithNode(BaseFs, fDates, File(text)), fDatesWednesdays, old)
       \/ \E text \in CommentFiles :
            fs = Place(WithNode(BaseFs, fComments, File(text)), fCommentsSimilar, old)
  /\ Idle

\* The state after a handler returned or raised (no HTTP status).
Returned(out) ==
  /\ resp' = Response(0, out.msg, out.status, <<>>)
  /\ fs' = out.fsys

\* await self._handle_weekday_counting({})
CallWeekdayCounting ==
  /\ phase = "idle"
  /\ Returned(_handle_weekday_counting(JObj(<<>>), fs))
  /\ req' = Request("count_weekdays", <<>>, NoCompletion)
  /\ calls' = <<"handler">>
  /\ before' = fs
  /\ phase' = "done"

\* await self._handle_contact_sorting({})
CallContactSorting ==
  /\ phase = "idle"
  /\ Returned(_handle_contact_sorting(JObj(<<>>), fs))
  /\ req' = Request("sort_contacts", <<>>, NoCompletion)
  /\ calls' = <<"handler">>
  /\ before' = fs
  /\ phase' = "done"

\* await self._handle_similar_comments({})
CallSimilarComments ==
  /\ phase = "idle"
  /\ \E embeddings \in EmbeddingOutcomes :
       Returned(_handle_similar_comments(JObj(<<>>), fs, embeddings))
  /\ req' = Request("similar_comments", <<>>, NoCompletion)
  /\ calls' = <<"handler">>
  /\ before' = fs
  /\ phase' = "done"

NextHandlers ==
  CallWeekdayCounting \/ CallContactSorting \/ CallSimilarComments \/ Finish

SpecHandlers == InitHandlers /\ [][NextHandlers]_vars

(***************************************************************************)
(* Properties                                                              *)
(***************************************************************************)

\* The request in hand is of kind op and has been answered.
Done(op) == phase = "done" /\ req.op = op

\* The calls of the request in hand include c.
Called(c) == \E i \in 1..Len(calls) : calls[i] = c

\* The deny-list tokens as the specification lists them.
DenyTokens ==
  { <<"r","m"," ">>, <<"r","e","m","o","v","e">>, <<"d","e","l","e","t","e">>,
    <<"c","h","m","o","d">>, <<"c","h","o","w","n">> }

\* token occurs in task at index i, letter case ignored.
OccursAt(task, token, i) ==
  /\ i + Len(token) - 1 <= Len(task)
  /\ \A k \in 1..Len(token) : LowerChar(task[i + k - 1]) = token[k]

\* The task strings the validator is to reject: empty, all whitespace, fewer
\* than 5 characters between the first and the last that is no whitespace,
\* or holding a deny-list token in any letter case.
MustReject(task) ==
  \/ task = <<>>
  \/ \A i \in 1..Len(task) : IsSpace(task[i])
  \/ Cardinality({i \in 1..Len(task) :
        /\ \E j \in 1..i : ~IsSpace(task[j])
        /\ \E j \in i..Len(task) : ~IsSpace(task[j])}) < 5
  \/ \E token \in DenyTokens : \E i \in 1..Len(task) : OccursAt(task, token, i)

\* C1: every /run whose task is empty, all whitespace, shorter than 5
\* characters after trimming or holds a deny-list token in any letter case is
\* rejected by is_valid_task and answered 400, and the LLM is never called.
C1_InvalidTaskRejected ==
  (Done("run") /\ MustReject(req.arg))
    => (~is_valid_task(req.arg) /\ resp.status = 400 /\ ~Called("get_completion"))

\* C1 witness: a task naming REMOVE in capitals, long enough, answered 400
\* without a call of the LLM.
C1_Witness ==
  /\ Done("run")
  /\ Contains(req.arg, <<"R","E","M","O","V","E">>)
  /\ Len(Strip(req.arg)) >= 5
  /\ resp.status = 400
  /\ calls = <<>>

\* The keys of the handler registry.
RegistryKeys == {handlers[i][1] : i \in 1..Len(handlers)}

\* The completion is a 200 answer whose text is no classification naming a
\* registered task type: no JSON, no object with task_type and parameters,
\* or a task_type that is no key of the registry.
ClassificationUnusable(completion) ==
  /\ completion.ok
  /\ LET c == JsonLoads(completion.text) IN
     \/ c.raised
     \/ c.value.t # "obj"
     \/ ~HasKey(c.value, kTaskType)
     \/ ~HasKey(c.value, kParameters)
     \/ Get(c.value, kTaskType).t # "str"
     \/ Get(c.value, kTaskType).v \notin RegistryKeys

\* C2: a /run whose task passes validation and whose classification is no
\* valid JSON, lacks task_type or parameters, or names an unregistered task
\* type is answered 400, never 500.
C2_ClassificationFailureIs400 ==
  (Done("run") /\ is_valid_task(req.arg) /\ Called("get_completion")
     /\ ClassificationUnusable(req.completion))
    => resp.status = 400

\* The completion is a classification object with both fields whose
\* task_type is a string outside the registry.
UnknownTaskType(completion) ==
  /\ completion.ok
  /\ LET c == JsonLoads(completion.text) IN
     /\ ~c.raised
     /\ c.value.t = "obj"
     /\ HasKey(c.value, kTaskType)
     /\ HasKey(c.value, kParameters)
     /\ Get(c.value, kTaskType).t = "str"
     /\ Get(c.value, kTaskType).v \notin RegistryKeys

\* C3: a classification whose task_type is none of the 17 registry keys makes
\* handle_task fail with "Unknown task type: ...", no handler runs and the
\* file system is left as it was.
C3_UnknownTypeError ==
  (Done("run") /\ Called("get_completion") /\ UnknownTaskType(req.completion))
    => /\ resp.status # 200
       /\ Contains(resp.detail, sUnknownTaskType)
       /\ ~Called("handler")
       /\ fs = before

\* text is a JSON array of objects with the two names as strings.
IsContactArray(text) ==
  LET c == JsonLoads(text) IN
  /\ ~c.raised
  /\ c.value.t = "arr"
  /\ \A i \in 1..Len(c.value.v) :
       /\ c.value.v[i].t = "obj"
       /\ HasKey(c.value.v[i], kLastName)
       /\ HasKey(c.value.v[i], kFirstName)
       /\ Get(c.value.v[i], kLastName).t = "str"
       /\ Get(c.value.v[i], kFirstName).t = "str"

\* C5: POST /run "sort the contacts file by name", classified as
\* sort_contacts with no parameters, over a valid /data/contacts.json runs the
\* contact-sort handler and answers 200 with result {status: success}.
C5_SortScenarioSucceeds ==
  (/\ Done("run")
   /\ req.arg = tSortContacts
   /\ req.completion = Completed(Classification(handlers[4][1]))
   /\ Node(before, fContacts).kind = "file"
   /\ IsContactArray(Node(before, fContacts).text))
    => (resp.status = 200 /\ resp.result = "success" /\ Called("handler"))

\* The resolved path is /data or lies below it.
UnderRoot(p) == p = DataDir \/ StartsWith(p, DataDir \o <<"/">>)

\* C6: GET /read answers 400 for every path that resolves outside /data,
\* whether or not the file exists, and for /data itself; it answers 200 only
\* for a path validate_path accepted.
C6_OutsideRootIs400 ==
  Done("read") =>
    /\ (~Resolve(before, req.arg).raised /\ ~UnderRoot(Resolve(before, req.arg).value))
         => resp.status = 400
    /\ (~Resolve(before, req.arg).raised /\ Resolve(before, req.arg).value = DataDir)
         => resp.status = 400
    /\ resp.status = 200 => validate_path(before, req.arg)

\* C7: GET /read of a path below /data whose file is absent answers 404.
C7_AbsentFileIs404 ==
  (/\ Done("read")
   /\ ~Resolve(before, req.arg).raised
   /\ StartsWith(Resolve(before, req.arg).value, DataDir \o <<"/">>)
   /\ Node(before, Resolve(before, req.arg).value).kind = "absent")
    => resp.status = 404

\* C8: validate_path accepts a path only if it resolves to a regular file
\* below /data; a file of a sibling such as /data2 is refused.
C8_AcceptsOnlyFilesUnderRoot ==
  (Done("read") /\ validate_path(before, req.arg))
    => /\ ~Resolve(before, req.arg).raised
       /\ StartsWith(Resolve(before, req.arg).value, DataDir \o <<"/">>)
       /\ Node(before, Resolve(before, req.arg).value).kind = "file"

\* The records of a JSON array held in the file at p.
RecordsAt(fsys, p) == JsonLoads(Node(fsys, p).text).value.v

\* a and b have the same last and first name.
SameNames(a, b) ==
  Get(a, kLastName) = Get(b, kLastName) /\ Get(a, kFirstName) = Get(b, kFirstName)

\* a is before b by last name, then by first name.
NamesBefore(a, b) ==
  \/ StrLess(Get(a, kLastName).v, Get(b, kLastName).v)
  \/ /\ Get(a, kLastName).v = Get(b, kLastName).v
     /\ StrLess(Get(a, kFirstName).v, Get(b, kFirstName).v)

\* out is inp rearranged by a permutation that puts the names in ascending
\* order and keeps records of equal names in their order of inp.
StableSortOf(out, inp) ==
  /\ Len(out) = Len(inp)
  /\ \E perm \in [1..Len(inp) -> 1..Len(inp)] :
       /\ \A i, j \in 1..Len(inp) : i # j => perm[i] # perm[j]
       /\ \A i \in 1..Len(inp) : out[i] = inp[perm[i]]
       /\ \A i, j \in 1..Len(inp) :
            i < j => \/ NamesBefore(out[i], out[j])
                     \/ SameNames(out[i], out[j]) /\ perm[i] < perm[j]

\* C9: for a contacts.json that is an array of records with first_name and
\* last_name, the handler succeeds and contacts-sorted.json holds the same
\* records ordered by (last_name, first_name), ties in input order; sorting
\* the sorted file again writes the identical file.
C9_StableSortedPermutation ==
  (/\ Done("sort_contacts")
   /\ Node(before, fContacts).kind = "file"
   /\ Node(before, fContacts).mode = "rw"
   /\ IsContactArray(Node(before, fContacts).text))
    => /\ resp.result = "success"
       /\ Node(fs, fContacts) = Node(before, fContacts)
       /\ Node(fs, fContactsSorted).kind = "file"
       /\ IsContactArray(Node(fs, fContactsSorted).text)
       /\ StableSortOf(RecordsAt(fs, fContactsSorted), RecordsAt(before, fContacts))
       /\ _handle_contact_sorting(JObj(<<>>),
             WithNode(fs, fContacts, Node(fs, fContactsSorted))).fsys[fContactsSorted]
            = Node(fs, fContactsSorted)

\* C9 witness: three or more contacts, not in order, two of them with the
\* same names, sorted with success.
C9_Witness ==
  /\ Done("sort_contacts")
  /\ resp.result = "success"
  /\ IsContactArray(Node(before, fContacts).text)
  /\ Len(RecordsAt(before, fContacts)) >= 3
  /\ RecordsAt(fs, fContactsSorted) # RecordsAt(before, fContacts)
  /\ \E i, j \in 1..Len(RecordsAt(before, fContacts)) :
       /\ i # j
       /\ RecordsAt(before, fContacts)[i] # RecordsAt(before, fContacts)[j]
       /\ SameNames(RecordsAt(before, fContacts)[i], RecordsAt(before, fContacts)[j])

\* The day of the week by the table of month offsets (Sunday is 0).
MonthOffset == <<0, 3, 2, 5, 0, 3, 5, 1, 4, 6, 2, 4>>
DayOfWeek(date) ==
  LET y == IF date.month < 3 THEN date.year - 1 ELSE date.year IN
  (y + (y \div 4) - (y \div 100) + (y \div 400) + MonthOffset[date.month] + date.day) % 7
IsWednesday(date) == DayOfWeek(date) = 3

\* The line without its newline.
Chomp(line) ==
  IF line # <<>> /\ line[Len(line)] = "\n" THEN SubSeq(line, 1, Len(line) - 1) ELSE line

\* Every line of text is the ISO form of a date of the pool.
IsDateFile(text) ==
  \A i \in 1..Len(ReadLines(text, 1, <<>>, <<>>)) :
    \E d \in DatePool : FormatIso(d) = Chomp(ReadLines(text, 1, <<>>, <<>>)[i])

\* The number of lines of text whose date is a Wednesday.
Wednesdays(text) ==
  Cardinality({i \in 1..Len(ReadLines(text, 1, <<>>, <<>>)) :
     IsWednesday(CHOOSE d \in DatePool :
                   FormatIso(d) = Chomp(ReadLines(text, 1, <<>>, <<>>)[i]))})

\* The number a string of decimal digits denotes (-1 if it is none).
RECURSIVE DecimalValue(_)
DecimalValue(s) ==
  IF s = <<>> \/ \E i \in 1..Len(s) : ~IsDigit(s[i]) THEN -1
  ELSE IF Len(s) = 1 THEN Ord(s[1]) - 48
  ELSE DecimalValue(SubSeq(s, 1, Len(s) - 1)) * 10 + (Ord(s[Len(s)]) - 48)

\* C10: for a dates.txt of one ISO date per line the handler succeeds and
\* dates-wednesdays.txt holds exactly the decimal count of the lines that
\* fall on a Wednesday, every duplicate counted.
C10_WednesdayCount ==
  (/\ Done("count_weekdays")
   /\ Node(before, fDates).kind = "file"
   /\ Node(before, fDates).mode = "rw"
   /\ IsDateFile(Node(before, fDates).text))
    => /\ resp.result = "success"
       /\ Node(fs, fDatesWednesdays).kind = "file"
       /\ DecimalValue(Node(fs, fDatesWednesdays).text)
            = Wednesdays(Node(before, fDates).text)
       /\ (Len(Node(fs, fDatesWednesdays).text) > 1
             => Node(fs, fDatesWednesdays).text[1] # "0")

\* C10 witness: 2024-01-01, 2024-01-03, 2024-01-10 gives "2".
C10_Witness ==
  /\ Done("count_weekdays")
  /\ Node(before, fDates).text
       = Lines(<<FormatIso(Date(2024, 1, 1)), FormatIso(Date(2024, 1, 3)),
                 FormatIso(Date(2024, 1, 10))>>)
  /\ resp.result = "success"
  /\ Node(fs, fDatesWednesdays).text = <<"2">>

\* The output file of the handler called for op.
OutputOf(op) ==
  CASE op = "count_weekdays" -> fDatesWednesdays
    [] op = "sort_contacts" -> fContactsSorted
    [] OTHER -> fCommentsSimilar

\* C11: a file handler that reports failure leaves its output file exactly as
\* it was before the call, and one that reports success leaves an output
\* file holding the whole result (a decimal count, a JSON array).
C11_NoPartialSuccess ==
  (phase = "done" /\ calls = <<"handler">>)
    => /\ resp.result # "success"
            => Node(fs, OutputOf(req.op)) = Node(before, OutputOf(req.op))
       /\ resp.result = "success"
            => /\ Node(fs, OutputOf(req.op)).kind = "file"
               /\ req.op = "count_weekdays"
                    => DecimalValue(Node(fs, fDatesWednesdays).text) >= 0
               /\ req.op = "sort_contacts"
                    => /\ ~JsonLoads(Node(fs, fContactsSorted).text).raised
                       /\ JsonLoads(Node(fs, fContactsSorted).text).value.t = "arr"

=============================================================================
